---- MODULE Spec2Model ----
(***************************************************************************)
(* A model of service.py: one run of main().  A pool of worker threads     *)
(* fetches one table per region of the catalogue, main() collects the      *)
(* results in catalogue order, concatenates the non-empty tables, cleans   *)
(* them, writes the snapshot file and posts the records to the API.        *)
(*                                                                         *)
(* Text is a sequence of one-character strings; a response body is a       *)
(* sequence of lines and a line the sequence of its '|'-separated fields.  *)
(***************************************************************************)
EXTENDS Integers, Sequences, FiniteSets, TLC

VARIABLES
    estados,      \* the iterable main() maps over: a slice of DADOS_ESTADUAIS
    service,      \* the responses the upstream service may give in this run
    pc,           \* where main() is
    status,       \* per region: "new", "queued", "running", "done", "cancelled"
    result,       \* per region: the outcome of its future
    log,          \* per region: the kind of the line fetch_state_data logged
    gets,         \* per region: GET requests issued
    got,          \* per region: the response its GET ended with
    idx,          \* the next region whose result main() consumes
    all_dfs,      \* main(): the tables kept so far
    df_final,     \* main(): the consolidated table
    cleaned,      \* calls of process_and_clean_data
    file,         \* the content of OUTPUT_FILENAME
    sync,         \* the synchronisation: calls, POSTs, payload, log lines, response
    exc           \* the exception that left main(), if any

vars == <<estados, service, pc, status, result, log, gets, got, idx, all_dfs,
          df_final, cleaned, file, sync, exc>>

-----------------------------------------------------------------------------
(* Bounds of the model *)

\* regions of a run that may receive any response
NumRegions == 3

\* regions of the run that fills the worker pool
WideRegions == 12

-----------------------------------------------------------------------------
(* Values *)

None == [type |-> "None"]

Some(n) == [type |-> "int", value |-> n]

\* a missing cell of a DataFrame (float nan); no text has this shape
NaN == <<"<NaN>">>

Raise(e) == [type |-> "raise", exc |-> e]

Max(a, b) == IF a >= b THEN a ELSE b

max_workers == 10

DEFAULT_DATA_FIM == <<"3", "1", "1", "2", "9", "9", "9", "9">>

COLUNAS == <<"cod_aj_apur", "descricao", "data_inicio", "data_fim">>

Estado(p, uf, t) == [idPacote |-> p, UF |-> uf, idTabela |-> t]

DADOS_ESTADUAIS ==
    << Estado(11, "Bahia", Some(190)),
       Estado(21, "Paraiba", Some(46)),
       Estado(8, "Alagoas", Some(33)),
       Estado(15, "Goias", Some(37)),
       Estado(19, "Minas Gerais", Some(43)),
       Estado(22, "Pernambuco", Some(212)),
       Estado(29, "Rondonia", Some(53)),
       Estado(28, "Roraima", None),
       Estado(30, "Santa Catarina", Some(54)),
       Estado(31, "Sao Paulo", Some(247)),
       Estado(32, "Sergipe", Some(56)),
       Estado(33, "Tocantins", Some(59)),
       Estado(7, "Acre", Some(727)),
       Estado(10, "Amapa", Some(842)),
       Estado(9, "Amazonas", Some(220)),
       Estado(12, "Ceara", Some(36)),
       Estado(13, "Distrito Federal", Some(838)),
       Estado(14, "Espirito Santo", Some(171)),
       Estado(16, "Maranhao", Some(122)),
       Estado(17, "Mato Grosso", Some(131)),
       Estado(18, "Mato Grosso do Sul", Some(42)),
       Estado(20, "Para", Some(123)),
       Estado(23, "Parana", Some(50)),
       Estado(24, "Piaui", Some(127)),
       Estado(25, "Rio de Janeiro", Some(52)),
       Estado(26, "Rio Grande do Norte", Some(126)),
       Estado(27, "Rio Grande do Sul", Some(173)) >>

-----------------------------------------------------------------------------
(* Text, tables and the responses of the upstream service *)

Banner == << <<"v", "1">>, <<"T", "a", "b">> >>

COD_BA == <<"B", "A", "0", "1">>
COD_SP == <<"S", "P", "0", "2">>
DESC_Q == <<"d", "'", "a">>
DESC_P == <<"d", "b">>
DT_INI == <<"0", "1", "0", "1", "2", "0", "2", "0">>
DT_FIM == <<"3", "1", "1", "2", "2", "0", "2", "1">>

RowA == <<COD_BA, DESC_Q, DT_INI, <<>> >>
RowB == <<COD_SP, DESC_P, DT_INI, DT_FIM>>
Row3 == <<COD_SP, DESC_P, DT_INI>>
Row5 == <<COD_SP, DESC_P, DT_INI, DT_FIM, <<"x">> >>
RowN == <<COD_BA, << >>, DT_INI, <<"N", "U", "L", "L">> >>

\* response bodies: no text, blanks only, the banner alone, a row longer
\* than the first one, one row, two rows, rows of three fields, a row
\* without description followed by a row shorter than the first one
EmptyBody == << >>
BlankBody == << << <<" ">> >>, << <<" ", " ">> >> >>
BannerOnly == << Banner >>
RaggedBody == << Banner, RowB, Row5 >>
OneRowBody == << Banner, RowA >>
TwoRowBody == << Banner, RowA, RowB >>
NarrowBody == << Banner, Row3 >>
GappyBody == << Banner, RowN, Row3 >>

Response(err, code, text) == [error |-> err, status_code |-> code, text |-> text]

\* requests.get ends with a response or with an exception of requests
Timeout == Response("Timeout", 0, EmptyBody)
ServerError == Response("", 500, OneRowBody)
Ok(text) == Response("", 200, text)

\* requests.get without timeout=30, the service never answering
NoResponse == {}

AnyResponse ==
    {Timeout, ServerError} \cup
    {Ok(b) : b \in {EmptyBody, BlankBody, BannerOnly, RaggedBody,
                    OneRowBody, TwoRowBody, NarrowBody, GappyBody}}

Down == {Timeout}

\* the classes of requests.exceptions.RequestException and pd.errors.ParserError
RequestException == {"Timeout", "ConnectionError", "HTTPError", "InvalidJSONError"}
ParserError == {"ParserError"}

\* response.raise_for_status()
raise_for_status(resp) == resp.status_code >= 400 /\ resp.status_code < 600

\* str.strip() leaves nothing: every line is one field of blanks
IsBlank(text) ==
    \A i \in 1..Len(text) :
        /\ Len(text[i]) = 1
        /\ \A j \in 1..Len(text[i][1]) : text[i][1][j] \in {" ", "\t"}

DataFrame(cols, rows) == [type |-> "DataFrame", columns |-> cols, rows |-> rows]

\* without the check of df.empty
empty_never(df) == FALSE

\* df.empty
empty(df) == df.rows = << >> \/ df.columns = << >>

\* the labels pandas gives the columns of a table read with header=None
RangeIndex(n) == [c \in 1..n |-> <<"0", "1", "2", "3", "4", "5", "6", "7">>[c]]

\* texts read_csv turns into a missing value (some of its default na_values)
NA_VALUES == { << >>, <<"n", "a", "n">>, <<"N", "a", "N">>, <<"N", "A">>,
               <<"N", "U", "L", "L">>, <<"n", "u", "l", "l">> }

Cell(field) == IF field \in NA_VALUES THEN NaN ELSE field

\* without skiprows=1: the banner is read as the first row
read_csv_noskip(text) ==
    LET data == SelectSeq(text, LAMBDA l : l # << << >> >>)
    IN  IF data = << >>
        THEN Raise("EmptyDataError")
        ELSE LET n == Len(data[1])
             IN  IF \E i \in 1..Len(data) : Len(data[i]) > n
                 THEN Raise("ParserError")
                 ELSE DataFrame(RangeIndex(n),
                        [i \in 1..Len(data) |->
                            [c \in 1..n |-> IF c <= Len(data[i])
                                            THEN Cell(data[i][c]) ELSE NaN]])

\* pd.read_csv(sep='|', skiprows=1, header=None, dtype=str): the first line is
\* dropped, empty lines are skipped, the first row sets the number of columns,
\* a later row with more fields is an error and one with fewer is padded
read_csv(text) ==
    LET data == SelectSeq(Tail(text), LAMBDA l : l # << << >> >>)
    IN  IF data = << >>
        THEN Raise("EmptyDataError")
        ELSE LET n == Len(data[1])
             IN  IF \E i \in 1..Len(data) : Len(data[i]) > n
                 THEN Raise("ParserError")
                 ELSE DataFrame(RangeIndex(n),
                        [i \in 1..Len(data) |->
                            [c \in 1..n |-> IF c <= Len(data[i])
                                            THEN Cell(data[i][c]) ELSE NaN]])

-----------------------------------------------------------------------------
(* fetch_state_data *)

Return(v, line) == [type |-> "return", value |-> v, log |-> line]

\* the request sent before idTabela is looked at
Requests_before_check(estado) == 1

\* a second attempt for a region
Requests_retry(estado) == IF estado.idTabela = None THEN 0 ELSE 2

\* the GET requests one call of fetch_state_data issues for a region
Requests(estado) == IF estado.idTabela = None THEN 0 ELSE 1

\* the try block: what it returns, or the exception raised inside it
try_block(resp) ==
    IF resp.error # ""
    THEN Raise(resp.error)
    ELSE IF raise_for_status(resp)
    THEN Raise("HTTPError")
    ELSE IF IsBlank(resp.text)
    THEN Return(None, "empty")
    ELSE LET df == read_csv(resp.text)
         IN  IF df.type = "raise" THEN df ELSE Return(df, "success")

\* without the last clause, except Exception
Caught_narrow(e) == e \in RequestException \cup ParserError

\* the except clauses: the last one, except Exception, takes every class
Caught(e) == TRUE

Handler(e) ==
    IF e \in RequestException THEN "network"
    ELSE IF e \in ParserError THEN "parser"
    ELSE "unexpected"

fetch_state_data(estado, resp) ==
    IF estado.idTabela = None
    THEN Return(None, "skipped")
    ELSE LET t == try_block(resp)
         IN  IF t.type = "raise"
             THEN IF Caught(t.exc) THEN Return(None, Handler(t.exc)) ELSE t
             ELSE t

-----------------------------------------------------------------------------
(* The tables of main(): pd.concat, process_and_clean_data, to_csv *)

RECURSIVE Flatten(_)
Flatten(seqs) == IF seqs = << >> THEN << >> ELSE Head(seqs) \o Flatten(Tail(seqs))

RECURSIVE Widest(_)
Widest(dfs) ==
    IF dfs = << >> THEN 0 ELSE Max(Len(Head(dfs).columns), Widest(Tail(dfs)))

\* a row laid out over n columns: the columns it lacks hold NaN
Reindex(row, n) == [c \in 1..n |-> IF c <= Len(row) THEN row[c] ELSE NaN]

\* only the first table of the list
concat_first(dfs) ==
    IF dfs = << >> THEN Raise("ValueError") ELSE Head(dfs)

\* the tables merged last to first
concat_reversed(dfs) ==
    IF dfs = << >>
    THEN Raise("ValueError")
    ELSE LET n == Widest(dfs)
         IN  DataFrame(RangeIndex(n),
                Flatten([k \in 1..Len(dfs) |->
                    [i \in 1..Len(dfs[Len(dfs) + 1 - k].rows) |->
                        Reindex(dfs[Len(dfs) + 1 - k].rows[i], n)]]))

\* pd.concat(dfs, ignore_index=True): the rows of the tables in the order of
\* the list, over the union of their columns; an empty list is an error
concat(dfs) ==
    IF dfs = << >>
    THEN Raise("ValueError")
    ELSE LET n == Widest(dfs)
         IN  DataFrame(RangeIndex(n),
                Flatten([k \in 1..Len(dfs) |->
                    [i \in 1..Len(dfs[k].rows) |-> Reindex(dfs[k].rows[i], n)]]))

\* .fillna(DEFAULT_DATA_FIM) alone
fill_data_fim_fillna_only(v) == IF v = NaN THEN DEFAULT_DATA_FIM ELSE v

\* .fillna(DEFAULT_DATA_FIM).replace(['nan', 'NaN', ''], DEFAULT_DATA_FIM)
fill_data_fim(v) ==
    IF v = NaN \/ v \in { <<"n", "a", "n">>, <<"N", "a", "N">>, << >> }
    THEN DEFAULT_DATA_FIM
    ELSE v

RECURSIVE DoubleQuotes(_)
DoubleQuotes(text) ==
    IF text = << >> THEN << >>
    ELSE (IF Head(text) = "'" THEN <<"'", "'">> ELSE <<Head(text)>>)
         \o DoubleQuotes(Tail(text))

\* the description left as it is
escape_none(v) == v

\* .str.replace("'", "''", regex=False): a missing value stays missing
escape(v) == IF v = NaN THEN NaN ELSE DoubleQuotes(v)

\* .str[:3]
first3(v) == IF v = NaN THEN NaN ELSE SubSeq(v, 1, IF Len(v) < 3 THEN Len(v) ELSE 3)

\* .str[:2]: a missing value stays missing
first2(v) == IF v = NaN THEN NaN ELSE SubSeq(v, 1, IF Len(v) < 2 THEN Len(v) ELSE 2)

clean_row(row) == <<row[1], escape(row[2]), row[3], fill_data_fim(row[4]), first2(row[1])>>

\* df.columns = COLUNAS raises unless the table has as many columns
process_and_clean_data(df) ==
    IF Len(df.columns) # Len(COLUNAS)
    THEN Raise("ValueError")
    ELSE DataFrame(COLUNAS \o <<"uf">>,
                   [i \in 1..Len(df.rows) |-> clean_row(df.rows[i])])

\* df.to_csv(index=False): a header line and a line per row, NaN written empty
to_csv(df) ==
    [header |-> df.columns,
     lines |-> [i \in 1..Len(df.rows) |->
                  [c \in 1..Len(df.columns) |->
                      IF df.rows[i][c] = NaN THEN << >> ELSE df.rows[i][c]]]]

\* the first record alone
to_dict_first(df) ==
    [i \in 1..1 |->
        [k \in {df.columns[c] : c \in 1..Len(df.columns)} |->
            df.rows[i][CHOOSE c \in 1..Len(df.columns) : df.columns[c] = k]]]

\* df.to_dict(orient='records')
to_dict(df) ==
    [i \in 1..Len(df.rows) |->
        [k \in {df.columns[c] : c \in 1..Len(df.columns)} |->
            df.rows[i][CHOOSE c \in 1..Len(df.columns) : df.columns[c] = k]]]

-----------------------------------------------------------------------------
(* enviar_dados_para_api *)

ApiJson == << << <<"{", "}">> >> >>
ApiHtml == << << <<"<", "h", ">">> >> >>

\* requests.post ends with an exception of requests or with a response
ApiResponse ==
    { Response("ConnectionError", 0, EmptyBody), Response("", 500, ApiHtml),
      Response("", 200, ApiJson), Response("", 200, ApiHtml) }

\* response.json() on a body that is no JSON raises a RequestException in
\* the newer releases of requests and a plain ValueError in the older ones
JsonErrors == {"InvalidJSONError", "ValueError"}

Line(level, text) == [level |-> level, text |-> text]

HasNaN(payload) ==
    \E i \in 1..Len(payload) : \E k \in DOMAIN payload[i] : payload[i][k] = NaN

Sent(n, body, lines, e, resp) ==
    [posts |-> n, payload |-> body, log |-> lines, exc |-> e, response |-> resp]

\* allow_nan: whether requests serialises a NaN of the payload (older
\* releases) or raises InvalidJSONError before sending (newer releases)
enviar_dados_para_api(df, resp, allow_nan, json_error) ==
    IF empty(df)
    THEN Sent(0, << >>, <<Line("warning", << >>)>>, "", None)
    ELSE LET payload == to_dict(df)
             info == Line("info", << >>)
             error == Line("error", << >>)
         IN  IF ~allow_nan /\ HasNaN(payload)
             THEN Sent(0, << >>, <<info, error>>, "", None)
             ELSE IF resp.error # ""
             THEN Sent(1, payload, <<info, error>>, "", None)
             ELSE IF raise_for_status(resp)
             THEN Sent(1, payload, <<info, error, Line("error", resp.text)>>, "", resp)
             ELSE IF resp.text = ApiJson
             THEN Sent(1, payload, <<info, Line("info", resp.text)>>, "", resp)
             ELSE IF json_error \in RequestException
             THEN Sent(1, payload, <<info, error>>, "", resp)
             ELSE Sent(1, payload, <<info>>, json_error, resp)

-----------------------------------------------------------------------------
(* main() *)

Regions == 1..Len(estados)

InFlight == {r \in Regions : status[r] = "running"}

\* a thread per call
PoolUnbounded(n) == TRUE

\* ThreadPoolExecutor(max_workers=10): a queued call starts while fewer than
\* max_workers calls are running
PoolHasRoom(n) == n < max_workers

\* results read without waiting for the calls
finished_nowait(s) == TRUE

\* Future.result() and the shutdown of the pool wait for this
finished(s) == s \in {"done", "cancelled"}

\* the filter of the list comprehension
Keep(df) == df # None /\ ~empty(df)

\* without the early return
no_data_never(dfs) == FALSE

\* if not all_dfs: return
no_data(dfs) == dfs = << >>

\* an exception of to_csv swallowed
after_write_goes_on(ok) == "sync"

\* an exception of to_csv leaves main(); otherwise main() goes on to the sync
after_write(ok) == IF ok THEN "sync" ELSE "crashed"

Runs ==
    {[first |-> f, n |-> NumRegions, service |-> AnyResponse] : f \in {1, 6, 7, 8}}
    \cup {[first |-> 7, n |-> 3, service |-> AnyResponse]}
    \cup {[first |-> 1, n |-> WideRegions, service |-> Down]}

Init ==
    /\ \E run \in Runs :
        /\ estados = SubSeq(DADOS_ESTADUAIS, run.first, run.first + run.n - 1)
        /\ service = run.service
    /\ pc = "map"
    /\ status = [r \in 1..Len(estados) |-> "new"]
    /\ result = [r \in 1..Len(estados) |-> None]
    /\ log = [r \in 1..Len(estados) |-> ""]
    /\ gets = [r \in 1..Len(estados) |-> 0]
    /\ got = [r \in 1..Len(estados) |-> None]
    /\ idx = 1
    /\ all_dfs = << >>
    /\ df_final = None
    /\ cleaned = 0
    /\ file = None
    /\ sync = [calls |-> 0, posts |-> 0, payload |-> << >>, log |-> << >>,
               response |-> None]
    /\ exc = ""

\* executor.map: every entry of the iterable is submitted, in order
Map ==
    /\ pc = "map"
    /\ status' = [r \in Regions |-> "queued"]
    /\ pc' = "collect"
    /\ UNCHANGED <<estados, service, result, log, gets, got, idx, all_dfs, df_final,
                   cleaned, file, sync, exc>>

\* a worker takes the oldest queued call; a region without idTabela returns
\* at once, any other issues its GET
StartFetch(r) ==
    /\ status[r] = "queued"
    /\ \A q \in Regions : q < r => status[q] # "queued"
    /\ PoolHasRoom(Cardinality(InFlight))
    /\ gets' = [gets EXCEPT ![r] = @ + Requests(estados[r])]
    /\ IF estados[r].idTabela = None
       THEN LET out == fetch_state_data(estados[r], Timeout)
            IN  /\ status' = [status EXCEPT ![r] = "done"]
                /\ result' = [result EXCEPT ![r] = out.value]
                /\ log' = [log EXCEPT ![r] = out.log]
       ELSE /\ status' = [status EXCEPT ![r] = "running"]
            /\ UNCHANGED <<result, log>>
    /\ UNCHANGED <<estados, service, pc, got, idx, all_dfs, df_final, cleaned,
                   file, sync, exc>>

\* the GET ends and fetch_state_data returns, or raises
FinishFetch(r) ==
    /\ status[r] = "running"
    /\ \E resp \in service :
        LET out == fetch_state_data(estados[r], resp)
        IN  /\ result' = [result EXCEPT ![r] = IF out.type = "raise" THEN out ELSE out.value]
            /\ log' = [log EXCEPT ![r] = IF out.type = "raise" THEN "" ELSE out.log]
            /\ got' = [got EXCEPT ![r] = resp]
    /\ status' = [status EXCEPT ![r] = "done"]
    /\ UNCHANGED <<estados, service, pc, gets, idx, all_dfs, df_final, cleaned,
                   file, sync, exc>>

\* the list comprehension takes the next result in the order of the iterable;
\* an exception of the call is raised again here, and the calls still queued
\* are cancelled
Collect ==
    /\ pc = "collect"
    /\ idx <= Len(estados)
    /\ finished(status[idx])
    /\ IF result[idx].type = "raise"
       THEN /\ exc' = result[idx].exc
            /\ status' = [r \in Regions |->
                            IF status[r] = "queued" THEN "cancelled" ELSE status[r]]
            /\ pc' = "raising"
            /\ UNCHANGED <<idx, all_dfs>>
       ELSE /\ all_dfs' = IF Keep(result[idx]) THEN Append(all_dfs, result[idx])
                          ELSE all_dfs
            /\ idx' = idx + 1
            /\ UNCHANGED <<status, pc, exc>>
    /\ UNCHANGED <<estados, service, result, log, gets, got, df_final, cleaned, file,
                   sync>>

\* the end of the with block: shutdown(wait=True), then if not all_dfs
ExitPool ==
    /\ \/ pc = "collect" /\ idx > Len(estados)
       \/ pc = "raising"
    /\ \A r \in Regions : finished(status[r])
    /\ pc' = IF exc # "" THEN "crashed"
             ELSE IF no_data(all_dfs) THEN "nodata" ELSE "concat"
    /\ UNCHANGED <<estados, service, status, result, log, gets, got, idx, all_dfs,
                   df_final, cleaned, file, sync, exc>>

\* df_final = pd.concat(all_dfs, ignore_index=True)
Concat ==
    /\ pc = "concat"
    /\ LET df == concat(all_dfs)
       IN  IF df.type = "raise"
           THEN exc' = df.exc /\ pc' = "crashed" /\ UNCHANGED df_final
           ELSE df_final' = df /\ pc' = "clean" /\ UNCHANGED exc
    /\ UNCHANGED <<estados, service, status, result, log, gets, got, idx, all_dfs,
                   cleaned, file, sync>>

\* df_final = process_and_clean_data(df_final)
Clean ==
    /\ pc = "clean"
    /\ cleaned' = cleaned + 1
    /\ LET df == process_and_clean_data(df_final)
       IN  IF df.type = "raise"
           THEN exc' = df.exc /\ pc' = "crashed" /\ UNCHANGED df_final
           ELSE df_final' = df /\ pc' = "write" /\ UNCHANGED exc
    /\ UNCHANGED <<estados, service, status, result, log, gets, got, idx, all_dfs,
                   file, sync>>

\* df_final.to_csv(OUTPUT_FILENAME, ...): the file is written, or OSError
Write ==
    /\ pc = "write"
    /\ \E ok \in BOOLEAN :
        /\ file' = IF ok THEN to_csv(df_final) ELSE file
        /\ exc' = IF ok THEN exc ELSE "OSError"
        /\ pc' = after_write(ok)
    /\ UNCHANGED <<estados, service, status, result, log, gets, got, idx, all_dfs,
                   df_final, cleaned, sync>>

\* enviar_dados_para_api(df_final), then the last log line of main()
Sync ==
    /\ pc = "sync"
    /\ \E resp \in ApiResponse, allow_nan \in BOOLEAN, json_error \in JsonErrors :
        LET out == enviar_dados_para_api(df_final, resp, allow_nan, json_error)
        IN  /\ sync' = [calls |-> sync.calls + 1,
                        posts |-> sync.posts + out.posts,
                        payload |-> out.payload,
                        log |-> out.log,
                        response |-> out.response]
            /\ exc' = out.exc
            /\ pc' = IF out.exc # "" THEN "crashed" ELSE "done"
    /\ UNCHANGED <<estados, service, status, result, log, gets, got, idx, all_dfs,
                   df_final, cleaned, file>>

Next ==
    \/ Map
    \/ \E r \in Regions : StartFetch(r)
    \/ \E r \in Regions : FinishFetch(r)
    \/ Collect
    \/ ExitPool
    \/ Concat
    \/ Clean
    \/ Write
    \/ Sync

Spec == Init /\ [][Next]_vars

\* every GET and the POST end within their timeout and the threads of the
\* pool and the main thread keep running: a step that can be taken is taken
FairSpec == Spec /\ WF_vars(Next)

-----------------------------------------------------------------------------
(* process_and_clean_data and enviar_dados_para_api called on their own: a
   caller builds a table, hands the same table object to
   process_and_clean_data up to twice, then to enviar_dados_para_api.
   result holds a copy of the table as built, df_final the table object,
   all_dfs the values the calls of process_and_clean_data returned. *)

\* rows of a table handed to the functions
MaxRows == 1

CODES == {COD_BA, <<"X">>, << >>, NaN}
DESCRIPTIONS == {DESC_Q, DESC_P, <<"'", "'">>, NaN}
END_DATES == {DT_FIM, NaN, << >>, <<"n", "a", "n">>, <<"N", "a", "N">>, <<" ">>}

RawRow == {<<c, d, DT_INI, f>> : c \in CODES, d \in DESCRIPTIONS, f \in END_DATES}

RECURSIVE Tables(_)
Tables(n) ==
    IF n = 0 THEN {<< >>}
    ELSE Tables(n - 1) \cup
         {Append(t, r) : t \in {u \in Tables(n - 1) : Len(u) = n - 1}, r \in RawRow}

\* tables of four columns, and one of three and one of five
RawTables ==
    {DataFrame(RangeIndex(Len(COLUNAS)), rows) : rows \in Tables(MaxRows)}
    \cup {DataFrame(RangeIndex(3), <<Row3>>), DataFrame(RangeIndex(5), <<Row5>>)}

InitUnit ==
    /\ estados = << >>
    /\ service = {}
    /\ pc = "unit"
    /\ status = << >>
    /\ log = << >>
    /\ gets = << >>
    /\ got = << >>
    /\ idx = 1
    /\ \E raw \in RawTables : result = <<raw>> /\ df_final = raw
    /\ all_dfs = << >>
    /\ cleaned = 0
    /\ file = None
    /\ sync = [calls |-> 0, posts |-> 0, payload |-> << >>, log |-> << >>,
               response |-> None]
    /\ exc = ""

\* process_and_clean_data(df): the table is changed in place and returned;
\* df.columns = COLUNAS raises before anything is changed
CallClean ==
    /\ pc = "unit"
    /\ cleaned < 2
    /\ cleaned' = cleaned + 1
    /\ LET df == process_and_clean_data(df_final)
       IN  IF df.type = "raise"
           THEN exc' = df.exc /\ pc' = "crashed" /\ UNCHANGED <<df_final, all_dfs>>
           ELSE df_final' = df /\ all_dfs' = Append(all_dfs, df) /\ UNCHANGED <<pc, exc>>
    /\ UNCHANGED <<estados, service, status, result, log, gets, got, idx, file, sync>>

\* enviar_dados_para_api(df)
CallEnviar ==
    /\ pc = "unit"
    /\ \E resp \in ApiResponse, allow_nan \in BOOLEAN, json_error \in JsonErrors :
        LET out == enviar_dados_para_api(df_final, resp, allow_nan, json_error)
        IN  /\ sync' = [calls |-> sync.calls + 1,
                        posts |-> sync.posts + out.posts,
                        payload |-> out.payload,
                        log |-> out.log,
                        response |-> out.response]
            /\ exc' = out.exc
            /\ pc' = IF out.exc # "" THEN "crashed" ELSE "returned"
    /\ UNCHANGED <<estados, service, status, result, log, gets, got, idx, all_dfs,
                   df_final, cleaned, file>>

NextUnit == CallClean \/ CallEnviar

SpecUnit == InitUnit /\ [][NextUnit]_vars

-----------------------------------------------------------------------------
(* Properties *)

Terminal == {"nodata", "done", "crashed"}

AfterJoin == {"concat", "clean", "write", "sync", "done"}

Failures == {"skipped", "network", "empty", "parser", "unexpected"}

\* the fetch phase is over: every call has returned and main() has left the pool
Joined == pc \in Terminal \cup AfterJoin

HasTable(r) == result[r] # None /\ result[r].type = "DataFrame" /\ result[r].rows # << >>

\* process_and_clean_data returned the normalized table
Normalized == df_final # None /\ df_final.columns = COLUNAS \o <<"uf">>

WriteFailed == file = None /\ exc = "OSError"

\* C1: a failing region returns None, no call is cancelled, and a run in which
\* some region returned a non-empty table goes through normalization and,
\* once the normalized table exists, through the snapshot write and the sync
C1_FailureIsolation ==
    /\ \A r \in Regions :
        /\ log[r] \in Failures => result[r] = None
        /\ status[r] # "cancelled"
    /\ (pc \in Terminal /\ \E r \in Regions : HasTable(r)) =>
        /\ cleaned = 1
        /\ Normalized => (file # None \/ WriteFailed) /\ sync.calls = 1

\* C2: when no region yields a non-empty table main() ends in the no-data
\* state: no normalization, no snapshot, no sync call, no POST
C2_NoData ==
    (Joined /\ \A r \in Regions : ~HasTable(r)) =>
        /\ pc = "nodata"
        /\ cleaned = 0
        /\ df_final = None
        /\ file = None
        /\ sync.calls = 0 /\ sync.posts = 0

C2_Witness ==
    /\ pc = "nodata"
    /\ \E r \in Regions : log[r] = "skipped"
    /\ \E r \in Regions : log[r] = "empty"
    /\ \E r \in Regions : log[r] = "unexpected"

\* the rows of the regions that have idTabela, counted from the results
RECURSIVE RowsWithId(_)
RowsWithId(n) ==
    IF n = 0 THEN 0
    ELSE RowsWithId(n - 1) +
         (IF estados[n].idTabela # None /\ HasTable(n) THEN Len(result[n].rows) ELSE 0)

\* C3: a region without idTabela gets no request, is logged as skipped and
\* never as a failure, returns None, and adds no row to the final table
C3_Skipped ==
    /\ \A r \in Regions : estados[r].idTabela = None =>
        /\ gets[r] = 0
        /\ log[r] \in {"", "skipped"}
        /\ status[r] = "done" => log[r] = "skipped" /\ result[r] = None
    /\ df_final # None => Len(df_final.rows) = RowsWithId(Len(estados))

C3_Witness ==
    /\ pc = "done"
    /\ \E r \in Regions : estados[r].idTabela = None /\ log[r] = "skipped"
    /\ Len(df_final.rows) > 0

\* the raw rows the final table is to hold: those of the regions with a
\* non-empty table, in the order of the catalogue
RECURSIVE RawRows(_)
RawRows(n) ==
    IF n = 0 THEN << >>
    ELSE RawRows(n - 1) \o (IF HasTable(n) THEN result[n].rows ELSE << >>)

\* C4: the final table holds exactly the rows of the regions whose fetch
\* returned a non-empty table: as many rows, each one derived from its raw row
C4_Concatenation ==
    df_final # None =>
        LET raw == RawRows(Len(estados))
        IN  /\ Len(df_final.rows) = Len(raw)
            /\ \A i \in 1..Len(raw) :
                IF Normalized
                THEN df_final.rows[i] = clean_row(Reindex(raw[i], Len(COLUNAS)))
                ELSE df_final.rows[i] = Reindex(raw[i], Len(df_final.columns))

C4_Witness ==
    /\ pc = "done"
    /\ Cardinality({r \in Regions : HasTable(r)}) >= 2
    /\ \E r \in Regions : result[r] = None
    /\ Len(df_final.rows) >= 3

\* C5: once the normalized table exists the sync is attempted, also when the
\* snapshot write fails
C5_SyncDespiteWriteFailure ==
    (pc \in Terminal /\ Normalized) => sync.calls = 1

\* the POST was answered with a 4xx/5xx status
HttpError(resp) == resp # None /\ resp.error = "" /\ raise_for_status(resp)

\* C6: a POST is issued only after the snapshot was written, and a 4xx/5xx
\* answer is logged inside the sync, raises nothing and leaves the file as written
C6_WriteBeforeSync ==
    /\ (pc = "sync" \/ sync.calls > 0) => file = to_csv(df_final)
    /\ HttpError(sync.response) =>
        /\ pc = "done" /\ exc = ""
        /\ sync.log[Len(sync.log)].level = "error"

C6_Witness ==
    /\ HttpError(sync.response)
    /\ sync.posts = 1
    /\ file # None

\* C7: the merge, the normalizer, the write and the sync run only when every
\* call has finished
C7_JoinBarrier ==
    pc \in AfterJoin =>
        /\ InFlight = {}
        /\ \A r \in Regions : status[r] = "done"

C7_Witness ==
    /\ pc = "concat"
    /\ \E r \in Regions : log[r] = "network"
    /\ \E r \in Regions : log[r] = "success"

\* C8: at most max_workers calls are running, every entry is submitted, and
\* at the join every entry has gone through fetch_state_data
C8_BoundedPool ==
    /\ Cardinality(InFlight) <= 10
    /\ pc # "map" => \A r \in Regions : status[r] # "new"
    /\ Joined => \A r \in Regions : status[r] = "done" /\ log[r] # ""

C8_Witness ==
    /\ Cardinality(InFlight) = 10
    /\ \E r \in Regions : status[r] = "queued"

\* C9: a call returns a table or None whatever the response, so main() never
\* sees an exception of a fetch
C9_NeverRaises ==
    /\ \A r \in Regions :
        /\ result[r] = None \/ result[r].type = "DataFrame"
        /\ status[r] = "done" => log[r] \in Failures \cup {"success"}
    /\ pc # "raising"

C9_Witness ==
    /\ \E r \in Regions : log[r] = "unexpected"
    /\ \E r \in Regions : log[r] = "parser"
    /\ \E r \in Regions : log[r] = "network"
    /\ pc = "nodata"

\* C10: one GET per region with idTabela, at most one POST, and a 4xx/5xx
\* answer is logged with the body of the response and not sent again
C10_NoRetries ==
    /\ \A r \in Regions :
        /\ gets[r] <= 1
        /\ (estados[r].idTabela # None /\ status[r] \in {"running", "done"}) => gets[r] = 1
    /\ sync.calls <= 1 /\ sync.posts <= 1
    /\ HttpError(sync.response) =>
        /\ sync.posts = 1
        /\ sync.log[Len(sync.log)] = Line("error", sync.response.text)

C10_Witness ==
    /\ pc = "done"
    /\ HttpError(sync.response)
    /\ \E r \in Regions : log[r] = "network" /\ gets[r] = 1
    /\ \E r \in Regions : log[r] = "success" /\ gets[r] = 1

-----------------------------------------------------------------------------
(* Properties of the functions called on their own *)

\* the table as built and the table the first call returned
Raw == result[1]

Out == all_dfs[1]

\* C11: called with a table without rows, enviar_dados_para_api sends
\* nothing, logs one warning and returns
C11_EmptyTable ==
    (sync.calls = 1 /\ df_final.rows = << >>) =>
        /\ sync.posts = 0
        /\ sync.payload = << >>
        /\ sync.response = None
        /\ sync.log = <<Line("warning", << >>)>>
        /\ exc = "" /\ pc = "returned"

C11_Witness ==
    /\ sync.calls = 1
    /\ df_final.rows = << >>
    /\ pc = "returned"

\* C13: in the table returned data_fim is never missing nor empty: a missing,
\* empty, 'nan' or 'NaN' value became 31129999, any other value is as it was
C13_DataFim ==
    all_dfs # << >> =>
        \A i \in 1..Len(Raw.rows) :
            LET before == Raw.rows[i][4]
                after == Out.rows[i][4]
            IN  /\ after # NaN /\ after # << >>
                /\ IF before \in {NaN, << >>, <<"n", "a", "n">>, <<"N", "a", "N">>}
                   THEN after = <<"3", "1", "1", "2", "9", "9", "9", "9">>
                   ELSE after = before

C13_Witness ==
    /\ all_dfs # << >>
    /\ Len(Out.rows) > 0
    /\ Raw.rows[1][4] = <<"n", "a", "n">>
    /\ Out.rows[1][4] = DEFAULT_DATA_FIM

\* C14: in the table returned uf is the first two characters of cod_aj_apur,
\* the whole code when it is shorter, and missing when the code is missing
C14_Uf ==
    all_dfs # << >> =>
        \A i \in 1..Len(Raw.rows) :
            LET cod == Out.rows[i][1]
                uf == Out.rows[i][5]
            IN  /\ cod = Raw.rows[i][1]
                /\ IF cod = NaN THEN uf = NaN
                   ELSE IF Len(cod) < 2 THEN uf = cod
                   ELSE uf = <<cod[1], cod[2]>>

C14_Witness ==
    /\ all_dfs # << >>
    /\ Len(Out.rows) > 0
    /\ Out.rows[1][1] = <<"X">>
    /\ Out.rows[1][5] = <<"X">>

\* a description with every pair of quotes made one quote again; a quote
\* without its pair is marked
RECURSIVE Unescape(_)
Unescape(text) ==
    IF text = << >> THEN << >>
    ELSE IF Head(text) # "'" THEN <<Head(text)>> \o Unescape(Tail(text))
    ELSE IF Len(text) >= 2 /\ text[2] = "'" THEN <<"'">> \o Unescape(Tail(Tail(text)))
    ELSE <<"<unpaired>">> \o Unescape(Tail(text))

\* C15: in the table returned every quote of the description is doubled and
\* nothing else is changed; a missing description stays missing
C15_Quotes ==
    all_dfs # << >> =>
        \A i \in 1..Len(Raw.rows) :
            LET before == Raw.rows[i][2]
                after == Out.rows[i][2]
            IN  IF before = NaN THEN after = NaN
                ELSE /\ after # NaN
                     /\ Unescape(after) = before
                     /\ Len(after) = Len(before) + Len(SelectSeq(before, LAMBDA ch : ch = "'"))

C15_Witness ==
    /\ all_dfs # << >>
    /\ Len(Out.rows) > 0
    /\ Raw.rows[1][2] = <<"d", "'", "a">>
    /\ Out.rows[1][2] = <<"d", "'", "'", "a">>

\* C16: process_and_clean_data run twice on the same raw table returns the
\* same normalized table both times
C16_Idempotence ==
    cleaned = 2 =>
        /\ exc = ""
        /\ Len(all_dfs) = 2
        /\ all_dfs[2] = all_dfs[1]

-----------------------------------------------------------------------------
(* Properties of the run: payload, shape, scenario, order, termination *)

\* a cell as the snapshot holds it
Written(v) == IF v = NaN THEN << >> ELSE v

\* C12: the body of the POST is the whole normalized table, one object with
\* the five keys per record, in the order of the table, and its records are
\* those of the snapshot written before
C12_WholeTable ==
    sync.posts = 1 =>
        /\ Normalized
        /\ Len(sync.payload) = Len(df_final.rows)
        /\ file # None
        /\ file.header = <<"cod_aj_apur", "descricao", "data_inicio", "data_fim", "uf">>
        /\ Len(file.lines) = Len(sync.payload)
        /\ \A i \in 1..Len(df_final.rows) :
            LET obj == sync.payload[i]
                row == df_final.rows[i]
            IN  /\ DOMAIN obj = {"cod_aj_apur", "descricao", "data_inicio", "data_fim", "uf"}
                /\ <<obj.cod_aj_apur, obj.descricao, obj.data_inicio, obj.data_fim, obj.uf>> = row
                /\ file.lines[i] = <<Written(obj.cod_aj_apur), Written(obj.descricao),
                                     Written(obj.data_inicio), Written(obj.data_fim),
                                     Written(obj.uf)>>

C12_Witness ==
    /\ pc = "done"
    /\ sync.posts = 1
    /\ Len(sync.payload) = 4
    /\ sync.payload[1].cod_aj_apur # sync.payload[2].cod_aj_apur
    /\ sync.payload[3].descricao = NaN
    /\ file.lines[3][2] = << >>

\* C17: a region table without exactly four columns is fatal: the run ends
\* with the error of the normalization, no normalized table exists, nothing
\* is written and nothing is posted
C17_WrongShapeFatal ==
    (\E r \in Regions : HasTable(r) /\ Len(result[r].columns) # 4) =>
        /\ ~Normalized
        /\ file = None
        /\ sync.calls = 0 /\ sync.posts = 0
        /\ pc \in Terminal => pc = "crashed" /\ exc = "ValueError"

\* the run of three regions: the first answers the banner and two rows, the
\* second has no idTabela, the third answers an empty body
Scenario ==
    /\ Len(estados) = 3
    /\ estados[1].idTabela # None /\ got[1] = Ok(TwoRowBody)
    /\ estados[2].idTabela = None /\ status[2] = "done"
    /\ estados[3].idTabela # None /\ got[3] = Ok(EmptyBody)

\* C18: in that run the outcomes are success, skipped and empty; the
\* normalized table has the two records, uf the first two characters of the
\* code, the blank data_fim defaulted; and once the snapshot is written the
\* POST carries two objects
C18_EndToEnd ==
    Scenario =>
        /\ log = <<"success", "skipped", "empty">>
        /\ Joined => pc # "nodata"
        /\ cleaned = 1 =>
            /\ df_final.columns = <<"cod_aj_apur", "descricao", "data_inicio", "data_fim", "uf">>
            /\ df_final.rows =
                << <<COD_BA, <<"d", "'", "'", "a">>, DT_INI,
                     <<"3", "1", "1", "2", "9", "9", "9", "9">>, <<"B", "A">> >>,
                   <<COD_SP, DESC_P, DT_INI, DT_FIM, <<"S", "P">> >> >>
        /\ (pc \in Terminal /\ ~WriteFailed) =>
            /\ Len(file.lines) = 2
            /\ sync.calls = 1 /\ sync.posts = 1
            /\ Len(sync.payload) = 2
            /\ sync.payload[1].uf = <<"B", "A">> /\ sync.payload[2].uf = <<"S", "P">>

C18_Witness ==
    /\ Scenario
    /\ pc = "done"
    /\ sync.posts = 1

\* the tables main() has taken from the first n results
RECURSIVE Taken(_)
Taken(n) ==
    IF n = 0 THEN << >>
    ELSE Taken(n - 1) \o (IF HasTable(n) THEN <<result[n]>> ELSE << >>)

\* the rows in the final table ahead of those of region r
RECURSIVE RowsBefore(_)
RowsBefore(r) ==
    IF r = 1 THEN 0
    ELSE RowsBefore(r - 1) + (IF HasTable(r - 1) THEN Len(result[r - 1].rows) ELSE 0)

\* C19: whatever the order in which the calls end, the list of tables is
\* that of the regions already taken, in the order of the catalogue, and in
\* the final table the rows of a region follow those of every earlier region,
\* in their own order, before and after normalization
C19_CatalogueOrder ==
    /\ pc \in {"collect", "raising"} \cup AfterJoin \cup Terminal =>
        all_dfs = Taken(idx - 1)
    /\ df_final # None =>
        \A r \in Regions : HasTable(r) =>
            \A k \in 1..Len(result[r].rows) :
                LET at == RowsBefore(r) + k
                IN  /\ at <= Len(df_final.rows)
                    /\ df_final.rows[at][1] = result[r].rows[k][1]
                    /\ df_final.rows[at][3] = result[r].rows[k][3]

C19_Witness ==
    /\ pc = "collect"
    /\ idx = 2
    /\ status[2] = "running"
    /\ HasTable(1) /\ HasTable(3)
    /\ result[1].rows[1][1] # result[3].rows[1][1]
    /\ all_dfs = <<result[1]>>

\* every region has its outcome and main() has ended
Ended ==
    /\ pc \in Terminal
    /\ \A r \in Regions : status[r] = "done" /\ log[r] # ""

\* C20 as stated: main() ends in the no-data state or completed after the
\* write and the sync
C20_EndsNoDataOrDone == <>(Ended /\ pc \in {"nodata", "done"})

\* C20: every region gets its outcome, the fetch phase ends and main() ends:
\* in the no-data state, completed after the write and the sync, or by an
\* exception raised by the normalization, the write or the reading of the
\* answer of the API
C20_Terminates ==
    <>(/\ Ended
       /\ \/ pc = "nodata" /\ sync.calls = 0
          \/ pc = "done" /\ file # None /\ sync.calls = 1
          \/ pc = "crashed" /\ exc \in {"ValueError", "OSError"})

C20_Witness ==
    /\ Ended
    /\ pc = "crashed"
    /\ exc = "ValueError"
    /\ cleaned = 1
    /\ file = None

====
